---------------------------- MODULE Spec2Model ----------------------------
(***************************************************************************)
(* A model of the two components of the repository:                        *)
(*                                                                         *)
(*   task1_lru_cache.py     LRUCache (an OrderedDict with a capacity),     *)
(*                          range_sum_no_cache, range_sum_with_cache and   *)
(*                          update_array;                                  *)
(*   task2_rate_limiter.py  SlidingWindowRateLimiter (a defaultdict of     *)
(*                          timestamp lists with a window and a limit).    *)
(*                                                                         *)
(* The OrderedDict is a sequence of <<key, value>> pairs, head = least     *)
(* recently used, tail = most recently used.  Keys are the pairs <<L, R>>  *)
(* of inclusive range bounds.  A Python list is a sequence; index i of     *)
(* Python is index i + 1 here.                                             *)
(*                                                                         *)
(* time.time() is the variable now.  Timestamps are integer multiples of   *)
(* the clock's resolution, so the additions and subtractions of the        *)
(* limiter are exact, as they are for float timestamps on a common grid.   *)
(***************************************************************************)
EXTENDS Integers, Sequences, FiniteSets

(***************************************************************************)
(* Bounds of the model.                                                    *)
(***************************************************************************)
ArrayLen == 2
MaxValue == 1
MaxCapacity == 2
MaxTime == 5
MaxWindow == 2
MaxMessages == 2
MaxDrift == 1
MaxRecords == 3

VARIABLES
    capacity,       \* LRUCache.capacity
    cache,          \* LRUCache.cache: the OrderedDict, as a sequence of <<key, value>>
    array,          \* the array the range sums are taken of
    cacheOp,        \* the last cache operation: its name, arguments and result
    used,           \* history: held key -> rank in time of its latest successful
                    \* get or put (1 = longest ago), 0 for a key that is not held
    lastPut,        \* history: held key -> <<value of the latest put of the key>>,
                    \* <<>> for a key that is not held
    getter          \* a get that runs statement by statement beside the puts of
                    \* another thread: the statement it is at, its key, and (history)
                    \* whether the key left the cache since its membership test

VARIABLES
    window_size,    \* SlidingWindowRateLimiter.window_size
    max_messages,   \* SlidingWindowRateLimiter.max_messages
    user_messages,  \* SlidingWindowRateLimiter.user_messages: user -> list of timestamps,
                    \* defined for the users the defaultdict has been asked for
    now,            \* what time.time() returns
    limOp,          \* the last limiter operation: its name, user and result
    accepted,       \* history: user -> every timestamp record_message appended
    promise,        \* history: user -> now + d of the user's last positive wait d,
                    \* 0 when there is none or a message was recorded since
    callers         \* record_message calls that run statement by statement beside
                    \* each other: per caller the statement it is at, its user, and
                    \* (history) whether another call appended for the user since
                    \* its permission check

cacheVars == <<capacity, cache, array, cacheOp, used, lastPut, getter>>

limiterVars == <<window_size, max_messages, user_messages, now, limOp, accepted, promise,
                 callers>>

vars == <<capacity, cache, array, cacheOp, used, lastPut, getter,
          window_size, max_messages, user_messages, now, limOp, accepted, promise, callers>>

(***************************************************************************)
(* Inputs.                                                                 *)
(***************************************************************************)
Indices == 0..(ArrayLen - 1)
Values == 0..MaxValue
RangeKeys == {k \in Indices \X Indices : k[1] <= k[2]}
Arrays == [1..ArrayLen -> Values]
Users == {"user_1", "user_2"}

(***************************************************************************)
(* The OrderedDict primitives LRUCache uses.                               *)
(***************************************************************************)
HeldKeys(c) == {c[i][1] : i \in DOMAIN c}

IndexOf(c, key) == CHOOSE i \in DOMAIN c : c[i][1] = key

ValueOf(c, key) == c[IndexOf(c, key)][2]

DelItem(c, key) == SelectSeq(c, LAMBDA e : e[1] # key)

MoveToFront(c, key) == <<c[IndexOf(c, key)]>> \o DelItem(c, key)

MoveToEnd(c, key) == Append(DelItem(c, key), c[IndexOf(c, key)])

PopItemFirst(c) == Tail(c)

SetItem(c, key, value) ==
    IF key \in HeldKeys(c)
    THEN [c EXCEPT ![IndexOf(c, key)] = <<key, value>>]
    ELSE Append(c, <<key, value>>)

(***************************************************************************)
(* LRUCache.get: None is <<>>, a value v is <<v>>.                         *)
(***************************************************************************)
CacheGetCheckSkipped(c, key) == TRUE

\* `key not in self.cache` is false: get goes on to move_to_end
CacheGetCheck(c, key) == key \in HeldKeys(c)

CacheGetNoRefresh(c, key) ==
    IF key \notin HeldKeys(c)
    THEN [cache |-> c, ret |-> <<>>]
    ELSE [cache |-> c, ret |-> <<ValueOf(c, key)>>]

CacheGet(c, key) ==
    IF key \notin HeldKeys(c)
    THEN [cache |-> c, ret |-> <<>>]
    ELSE LET moved == MoveToEnd(c, key)
         IN  [cache |-> moved, ret |-> <<ValueOf(moved, key)>>]

(***************************************************************************)
(* LRUCache.put.  popitem on an empty OrderedDict raises KeyError before   *)
(* anything is stored.                                                     *)
(***************************************************************************)
CachePutEvictsOnUpdate(c, cap, key, value) ==
    IF Len(c) >= cap /\ c # <<>>
    THEN [cache |-> SetItem(PopItemFirst(c), key, value), raised |-> FALSE]
    ELSE IF key \in HeldKeys(c)
    THEN [cache |-> SetItem(MoveToEnd(c, key), key, value), raised |-> FALSE]
    ELSE [cache |-> SetItem(c, key, value), raised |-> FALSE]

CachePutOffByOne(c, cap, key, value) ==
    IF key \in HeldKeys(c)
    THEN [cache |-> SetItem(MoveToEnd(c, key), key, value), raised |-> FALSE]
    ELSE IF Len(c) > cap
    THEN IF c = <<>>
         THEN [cache |-> c, raised |-> TRUE]
         ELSE [cache |-> SetItem(PopItemFirst(c), key, value), raised |-> FALSE]
    ELSE [cache |-> SetItem(c, key, value), raised |-> FALSE]

CachePut(c, cap, key, value) ==
    IF key \in HeldKeys(c)
    THEN [cache |-> SetItem(MoveToEnd(c, key), key, value), raised |-> FALSE]
    ELSE IF Len(c) >= cap
    THEN IF c = <<>>
         THEN [cache |-> c, raised |-> TRUE]
         ELSE [cache |-> SetItem(PopItemFirst(c), key, value), raised |-> FALSE]
    ELSE [cache |-> SetItem(c, key, value), raised |-> FALSE]

(***************************************************************************)
(* LRUCache.__contains__ and LRUCache.__len__.                             *)
(***************************************************************************)
CacheContains(c, key) == key \in HeldKeys(c)

\* what __contains__ leaves of the OrderedDict: a lookup changes nothing
CacheContainsViaGet(c, key) == CacheGet(c, key).cache

CacheContainsEffect(c, key) == c

CacheLen(c) == Len(c)

(***************************************************************************)
(* LRUCache.invalidate.  A predicate over keys is the set of the keys it   *)
(* is true of.                                                             *)
(***************************************************************************)
CacheInvalidateFirstOnly(c, truth) ==
    LET keys_to_remove == SelectSeq(c, LAMBDA e : e[1] \in truth)
    IN  IF keys_to_remove = <<>> THEN c ELSE DelItem(c, Head(keys_to_remove)[1])

CacheInvalidateReinserts(c, truth) ==
    LET kept == SelectSeq(c, LAMBDA e : e[1] \notin truth)
    IN  [i \in 1..Len(kept) |-> kept[Len(kept) + 1 - i]]

CacheInvalidate(c, truth) ==
    LET keys_to_remove == SelectSeq(c, LAMBDA e : e[1] \in truth)
        RECURSIVE DelAll(_, _)
        DelAll(d, ks) == IF ks = <<>> THEN d ELSE DelAll(DelItem(d, Head(ks)[1]), Tail(ks))
    IN  DelAll(c, keys_to_remove)

(***************************************************************************)
(* Python's sum and the slice array[lo:hi] for 0 <= lo and 0 <= hi (a      *)
(* slice stops at the end of the list).                                    *)
(***************************************************************************)
RECURSIVE SumSeq(_)
SumSeq(s) == IF s = <<>> THEN 0 ELSE Head(s) + SumSeq(Tail(s))

Slice(a, lo, hi) ==
    LET stop == IF hi < Len(a) THEN hi ELSE Len(a)
    IN  IF stop <= lo THEN <<>> ELSE [i \in 1..(stop - lo) |-> a[lo + i]]

(***************************************************************************)
(* range_sum_no_cache, range_sum_with_cache and update_array.              *)
(***************************************************************************)
RangeSumNoCache(a, L, R) == SumSeq(Slice(a, L, R + 1))

RangeSumWithCacheKeyedByLeft(a, L, R, c, cap) ==
    LET key == <<L, L>>
        got == CacheGet(c, key)
        result == SumSeq(Slice(a, L, R + 1))
        stored == CachePut(got.cache, cap, key, result)
    IN  IF got.ret # <<>>
        THEN [cache |-> got.cache, ret |-> got.ret[1], raised |-> FALSE]
        ELSE [cache |-> stored.cache, ret |-> result, raised |-> stored.raised]

RangeSumWithCache(a, L, R, c, cap) ==
    LET key == <<L, R>>
        got == CacheGet(c, key)
        result == SumSeq(Slice(a, L, R + 1))
        stored == CachePut(got.cache, cap, key, result)
    IN  IF got.ret # <<>>
        THEN [cache |-> got.cache, ret |-> got.ret[1], raised |-> FALSE]
        ELSE [cache |-> stored.cache, ret |-> result, raised |-> stored.raised]

SpansStrictLeft(key, idx) == key[1] < idx /\ idx <= key[2]

\* the lambda of update_array: key[0] <= idx <= key[1]
Spans(key, idx) == key[1] <= idx /\ idx <= key[2]

UpdateArray(a, idx, value, c) ==
    [array |-> [a EXCEPT ![idx + 1] = value],
     cache |-> CacheInvalidate(c, {k \in HeldKeys(c) : Spans(k, idx)})]

(***************************************************************************)
(* The history of uses.  Only the order in time of the held keys' latest   *)
(* uses matters, so the times are kept as ranks 1..n.  Touch records a     *)
(* successful get or put of key, Forget drops the keys no longer held.     *)
(***************************************************************************)
Ranked(u) ==
    [k \in DOMAIN u |->
        IF u[k] = 0 THEN 0
        ELSE Cardinality({j \in DOMAIN u : u[j] # 0 /\ u[j] <= u[k]})]

Forget(u, held) == Ranked([k \in DOMAIN u |-> IF k \in held THEN u[k] ELSE 0])

Touch(u, key, held) ==
    Ranked([k \in DOMAIN u |->
               IF k = key THEN Cardinality(DOMAIN u) + 1
               ELSE IF k \in held THEN u[k] ELSE 0])

\* the values put: Stored records a put of value under key, Dropped the keys removed
Dropped(lp, held) == [k \in DOMAIN lp |-> IF k \in held THEN lp[k] ELSE <<>>]

Stored(lp, key, value, held) ==
    [k \in DOMAIN lp |-> IF k = key THEN <<value>> ELSE IF k \in held THEN lp[k] ELSE <<>>]

(***************************************************************************)
(* The LRUCache, operation by operation.                                   *)
(***************************************************************************)
NoOp == [op |-> "init", key |-> <<>>, ret |-> <<>>, raised |-> FALSE, removed |-> {},
         hit |-> FALSE]

NoLimOp == [op |-> "init", user |-> "", ret |-> FALSE, raised |-> FALSE]

\* no get is under way
NoGet == [pc |-> "idle", key |-> <<>>, lost |-> FALSE]

\* the threads that call record_message, and one that is not in a call
Callers == {"caller_1", "caller_2"}

NoCall == [pc |-> "idle", user |-> "", raced |-> FALSE]

\* history: a get under way whose key is no longer among the held keys has lost it
Overtaken(g, held) ==
    IF g.pc # "idle" /\ g.key \notin held THEN [g EXCEPT !.lost = TRUE] ELSE g

\* no limiter is in use: one with the defaults of __init__, never called
LimiterUnused ==
    /\ window_size = 10
    /\ max_messages = 1
    /\ user_messages = <<>>
    /\ now = 0
    /\ limOp = NoLimOp
    /\ accepted = [u \in Users |-> <<>>]
    /\ promise = [u \in Users |-> 0]
    /\ callers = [p \in Callers |-> NoCall]

\* no cache is in use
CacheUnused ==
    /\ capacity = 1
    /\ cache = <<>>
    /\ array = [i \in 1..ArrayLen |-> 0]
    /\ cacheOp = NoOp
    /\ used = [k \in RangeKeys |-> 0]
    /\ lastPut = [k \in RangeKeys |-> <<>>]
    /\ getter = NoGet

InitCache ==
    /\ capacity \in 1..MaxCapacity
    /\ cache = <<>>
    /\ array = [i \in 1..ArrayLen |-> 0]
    /\ cacheOp = NoOp
    /\ used = [k \in RangeKeys |-> 0]
    /\ lastPut = [k \in RangeKeys |-> <<>>]
    /\ getter = NoGet
    /\ LimiterUnused

Put(key, value) ==
    LET r == CachePut(cache, capacity, key, value)
    IN  /\ cache' = r.cache
        /\ cacheOp' = [op |-> "put", key |-> key, ret |-> <<value>>, raised |-> r.raised,
                       removed |-> HeldKeys(cache) \ HeldKeys(r.cache),
                       hit |-> key \in HeldKeys(cache)]
        /\ used' = IF r.raised THEN used ELSE Touch(used, key, HeldKeys(r.cache))
        /\ lastPut' = IF r.raised THEN lastPut
                      ELSE Stored(lastPut, key, value, HeldKeys(r.cache))
        /\ getter' = Overtaken(getter, HeldKeys(r.cache))
        /\ UNCHANGED <<capacity, array, limiterVars>>

Get(key) ==
    LET r == CacheGet(cache, key)
    IN  /\ cache' = r.cache
        /\ cacheOp' = [op |-> "get", key |-> key, ret |-> r.ret, raised |-> FALSE,
                       removed |-> HeldKeys(cache) \ HeldKeys(r.cache),
                       hit |-> key \in HeldKeys(cache)]
        /\ used' = IF r.ret = <<>> THEN used ELSE Touch(used, key, HeldKeys(r.cache))
        /\ UNCHANGED <<capacity, array, lastPut, getter, limiterVars>>

Contains(key) ==
    /\ cache' = CacheContainsEffect(cache, key)
    /\ cacheOp' = [op |-> "contains", key |-> key, ret |-> <<CacheContains(cache, key)>>,
                   raised |-> FALSE, removed |-> {}, hit |-> key \in HeldKeys(cache)]
    /\ UNCHANGED <<capacity, array, used, lastPut, getter, limiterVars>>

LenOp ==
    /\ cacheOp' = [op |-> "len", key |-> <<>>, ret |-> <<CacheLen(cache)>>,
                   raised |-> FALSE, removed |-> {}, hit |-> FALSE]
    /\ UNCHANGED <<capacity, cache, array, used, lastPut, getter, limiterVars>>

\* truth: the held keys the predicate is true of (invalidate calls it on held keys only)
Invalidate(truth) ==
    LET c == CacheInvalidate(cache, truth)
    IN  /\ cache' = c
        /\ cacheOp' = [op |-> "invalidate", key |-> truth, ret |-> <<>>, raised |-> FALSE,
                       removed |-> HeldKeys(cache) \ HeldKeys(c), hit |-> FALSE]
        /\ used' = Forget(used, HeldKeys(c))
        /\ lastPut' = Dropped(lastPut, HeldKeys(c))
        /\ UNCHANGED <<capacity, array, getter, limiterVars>>

NextCache ==
    \/ \E key \in RangeKeys, value \in Values : Put(key, value)
    \/ \E key \in RangeKeys : Get(key)
    \/ \E key \in RangeKeys : Contains(key)
    \/ LenOp
    \/ \E truth \in SUBSET HeldKeys(cache) : Invalidate(truth)

SpecCache == InitCache /\ [][NextCache]_vars

(***************************************************************************)
(* The same LRUCache with one more capacity and a single value put, for    *)
(* what depends on the order of three and more entries only.               *)
(***************************************************************************)
InitCacheOrder ==
    /\ capacity \in 1..(MaxCapacity + 1)
    /\ cache = <<>>
    /\ array = [i \in 1..ArrayLen |-> 0]
    /\ cacheOp = NoOp
    /\ used = [k \in RangeKeys |-> 0]
    /\ lastPut = [k \in RangeKeys |-> <<>>]
    /\ getter = NoGet
    /\ LimiterUnused

NextCacheOrder ==
    \/ \E key \in RangeKeys : Put(key, 0)
    \/ \E key \in RangeKeys : Get(key)
    \/ \E truth \in SUBSET HeldKeys(cache) : Invalidate(truth)

SpecCacheOrder == InitCacheOrder /\ [][NextCacheOrder]_vars

(***************************************************************************)
(* LRUCache.__init__ stores whatever capacity it is given: the same cache  *)
(* for every capacity from -1 on.                                          *)
(***************************************************************************)
InitCacheAnyCapacity ==
    /\ capacity \in (-1)..MaxCapacity
    /\ cache = <<>>
    /\ array = [i \in 1..ArrayLen |-> 0]
    /\ cacheOp = NoOp
    /\ used = [k \in RangeKeys |-> 0]
    /\ lastPut = [k \in RangeKeys |-> <<>>]
    /\ getter = NoGet
    /\ LimiterUnused

SpecCacheAnyCapacity == InitCacheAnyCapacity /\ [][NextCache]_vars

(***************************************************************************)
(* LRUCache without a lock, used by two threads: one runs get statement by *)
(* statement (the membership test, move_to_end, the read of the value),    *)
(* the other runs whole puts in between.  move_to_end and the read raise   *)
(* KeyError for a key that is not held.                                    *)
(***************************************************************************)
GetCheck(key) ==
    /\ getter.pc = "idle"
    /\ IF CacheGetCheck(cache, key)
       THEN /\ getter' = [pc |-> "checked", key |-> key, lost |-> FALSE]
            /\ cacheOp' = [op |-> "get_check", key |-> key, ret |-> <<>>,
                           raised |-> FALSE, removed |-> {}, hit |-> TRUE]
       ELSE /\ getter' = NoGet
            /\ cacheOp' = [op |-> "get", key |-> key, ret |-> <<>>, raised |-> FALSE,
                           removed |-> {}, hit |-> FALSE]
    /\ UNCHANGED <<capacity, cache, array, used, lastPut, limiterVars>>

GetMove ==
    /\ getter.pc = "checked"
    /\ IF getter.key \in HeldKeys(cache)
       THEN /\ cache' = MoveToEnd(cache, getter.key)
            /\ used' = Touch(used, getter.key, HeldKeys(cache))
            /\ getter' = [getter EXCEPT !.pc = "moved"]
            /\ cacheOp' = [op |-> "get_move", key |-> getter.key, ret |-> <<>>,
                           raised |-> FALSE, removed |-> {}, hit |-> TRUE]
       ELSE /\ getter' = NoGet
            /\ cacheOp' = [op |-> "get", key |-> getter.key, ret |-> <<>>,
                           raised |-> TRUE, removed |-> {}, hit |-> TRUE]
            /\ UNCHANGED <<cache, used>>
    /\ UNCHANGED <<capacity, array, lastPut, limiterVars>>

GetRead ==
    /\ getter.pc = "moved"
    /\ getter' = NoGet
    /\ cacheOp' = IF getter.key \in HeldKeys(cache)
                  THEN [op |-> "get", key |-> getter.key,
                        ret |-> <<ValueOf(cache, getter.key)>>, raised |-> FALSE,
                        removed |-> {}, hit |-> TRUE]
                  ELSE [op |-> "get", key |-> getter.key, ret |-> <<>>,
                        raised |-> TRUE, removed |-> {}, hit |-> TRUE]
    /\ UNCHANGED <<capacity, cache, array, used, lastPut, limiterVars>>

NextCacheRace ==
    \/ \E key \in RangeKeys : GetCheck(key)
    \/ GetMove
    \/ GetRead
    \/ \E key \in RangeKeys, value \in Values : Put(key, value)

SpecCacheRace == InitCache /\ [][NextCacheRace]_vars

(***************************************************************************)
(* The range-sum service: queries through the cache, queries past it, and  *)
(* updates of the array, on one array and one cache.                       *)
(***************************************************************************)
InitRange ==
    /\ capacity \in 1..MaxCapacity
    /\ cache = <<>>
    /\ array \in Arrays
    /\ cacheOp = NoOp
    /\ used = [k \in RangeKeys |-> 0]
    /\ lastPut = [k \in RangeKeys |-> <<>>]
    /\ getter = NoGet
    /\ LimiterUnused

RangeSumWithCacheCall(L, R) ==
    LET r == RangeSumWithCache(array, L, R, cache, capacity)
    IN  /\ cache' = r.cache
        /\ cacheOp' = [op |-> "range_sum_with_cache", key |-> <<L, R>>, ret |-> <<r.ret>>,
                       raised |-> r.raised, removed |-> HeldKeys(cache) \ HeldKeys(r.cache),
                       hit |-> <<L, R>> \in HeldKeys(cache)]
        /\ used' = IF r.raised THEN used ELSE Touch(used, <<L, R>>, HeldKeys(r.cache))
        /\ lastPut' = IF r.raised \/ <<L, R>> \in HeldKeys(cache) THEN lastPut
                      ELSE Stored(lastPut, <<L, R>>, r.ret, HeldKeys(r.cache))
        /\ UNCHANGED <<capacity, array, getter, limiterVars>>

RangeSumNoCacheCall(L, R) ==
    /\ cacheOp' = [op |-> "range_sum_no_cache", key |-> <<L, R>>,
                   ret |-> <<RangeSumNoCache(array, L, R)>>, raised |-> FALSE, removed |-> {},
                   hit |-> FALSE]
    /\ UNCHANGED <<capacity, cache, array, used, lastPut, getter, limiterVars>>

UpdateArrayCall(idx, value) ==
    LET r == UpdateArray(array, idx, value, cache)
    IN  /\ array' = r.array
        /\ cache' = r.cache
        /\ cacheOp' = [op |-> "update_array", key |-> <<idx, value>>, ret |-> <<>>,
                       raised |-> FALSE, removed |-> HeldKeys(cache) \ HeldKeys(r.cache),
                       hit |-> FALSE]
        /\ used' = Forget(used, HeldKeys(r.cache))
        /\ lastPut' = Dropped(lastPut, HeldKeys(r.cache))
        /\ UNCHANGED <<capacity, getter, limiterVars>>

NextRange ==
    \/ \E k \in RangeKeys : RangeSumWithCacheCall(k[1], k[2])
    \/ \E k \in RangeKeys : RangeSumNoCacheCall(k[1], k[2])
    \/ \E idx \in Indices, value \in Values : UpdateArrayCall(idx, value)

SpecRange == InitRange /\ [][NextRange]_vars

(***************************************************************************)
(* The defaultdict(list): a user never asked for has no entry, and asking  *)
(* for one creates the empty list.                                         *)
(***************************************************************************)
MessagesOf(um, user_id) == IF user_id \in DOMAIN um THEN um[user_id] ELSE <<>>

WithMessagesShared(um, user_id, list) ==
    [u \in DOMAIN um \cup {user_id} |-> list]

WithMessages(um, user_id, list) ==
    [u \in DOMAIN um \cup {user_id} |-> IF u = user_id THEN list ELSE um[u]]

MinOf(list) == CHOOSE t \in {list[i] : i \in DOMAIN list} :
                   \A i \in DOMAIN list : t <= list[i]

MaxOf(list) == CHOOSE t \in {list[i] : i \in DOMAIN list} :
                   \A i \in DOMAIN list : t >= list[i]

(***************************************************************************)
(* SlidingWindowRateLimiter._clean_old_messages                            *)
(***************************************************************************)
CleanOldMessagesKeepEdge(um, user_id, current_time, W) ==
    LET cutoff_time == current_time - W
    IN  WithMessages(um, user_id,
            SelectSeq(MessagesOf(um, user_id), LAMBDA timestamp : timestamp >= cutoff_time))

CleanOldMessages(um, user_id, current_time, W) ==
    LET cutoff_time == current_time - W
    IN  WithMessages(um, user_id,
            SelectSeq(MessagesOf(um, user_id), LAMBDA timestamp : timestamp > cutoff_time))

(***************************************************************************)
(* SlidingWindowRateLimiter.can_send_message                               *)
(***************************************************************************)
CanSendMessageAtLimit(um, user_id, current_time, W, M) ==
    LET cleaned == CleanOldMessages(um, user_id, current_time, W)
    IN  [um |-> cleaned, ret |-> Len(cleaned[user_id]) <= M]

CanSendMessage(um, user_id, current_time, W, M) ==
    LET cleaned == CleanOldMessages(um, user_id, current_time, W)
    IN  [um |-> cleaned, ret |-> Len(cleaned[user_id]) < M]

(***************************************************************************)
(* SlidingWindowRateLimiter.record_message.  The clock is read twice: at   *)
(* check_time by can_send_message, and at current_time >= check_time for   *)
(* the timestamp that is appended.                                         *)
(***************************************************************************)
RecordMessageUnchecked(um, user_id, check_time, current_time, W, M) ==
    LET checked == CanSendMessage(um, user_id, check_time, W, M)
    IN  [um |-> WithMessages(checked.um, user_id,
                             Append(checked.um[user_id], current_time)),
         ret |-> TRUE]

RecordMessageOverwrites(um, user_id, check_time, current_time, W, M) ==
    LET checked == CanSendMessage(um, user_id, check_time, W, M)
    IN  IF ~checked.ret
        THEN [um |-> checked.um, ret |-> FALSE]
        ELSE [um |-> WithMessages(checked.um, user_id, <<current_time>>), ret |-> TRUE]

RecordMessage(um, user_id, check_time, current_time, W, M) ==
    LET checked == CanSendMessage(um, user_id, check_time, W, M)
    IN  IF ~checked.ret
        THEN [um |-> checked.um, ret |-> FALSE]
        ELSE [um |-> WithMessages(checked.um, user_id,
                                  Append(checked.um[user_id], current_time)),
              ret |-> TRUE]

(***************************************************************************)
(* SlidingWindowRateLimiter.time_until_next_allowed.  min of an empty list *)
(* raises ValueError.                                                      *)
(***************************************************************************)
TimeUntilNextAllowedNewest(um, user_id, current_time, W, M) ==
    LET cleaned == CleanOldMessages(um, user_id, current_time, W)
        list == cleaned[user_id]
    IN  IF Len(list) < M THEN [um |-> cleaned, ret |-> 0, raised |-> FALSE]
        ELSE IF list = <<>> THEN [um |-> cleaned, ret |-> 0, raised |-> TRUE]
        ELSE LET time_remaining == (MaxOf(list) + W) - current_time
             IN  [um |-> cleaned,
                  ret |-> IF time_remaining > 0 THEN time_remaining ELSE 0,
                  raised |-> FALSE]

TimeUntilNextAllowedFullWindow(um, user_id, current_time, W, M) ==
    LET cleaned == CleanOldMessages(um, user_id, current_time, W)
        list == cleaned[user_id]
    IN  IF Len(list) < M THEN [um |-> cleaned, ret |-> 0, raised |-> FALSE]
        ELSE [um |-> cleaned, ret |-> W, raised |-> FALSE]

TimeUntilNextAllowed(um, user_id, current_time, W, M) ==
    LET cleaned == CleanOldMessages(um, user_id, current_time, W)
        list == cleaned[user_id]
    IN  IF Len(list) < M THEN [um |-> cleaned, ret |-> 0, raised |-> FALSE]
        ELSE IF list = <<>> THEN [um |-> cleaned, ret |-> 0, raised |-> TRUE]
        ELSE LET oldest_timestamp == MinOf(list)
                 time_remaining == (oldest_timestamp + W) - current_time
             IN  [um |-> cleaned,
                  ret |-> IF time_remaining > 0 THEN time_remaining ELSE 0,
                  raised |-> FALSE]

(***************************************************************************)
(* SlidingWindowRateLimiter.get_message_count                              *)
(***************************************************************************)
GetMessageCount(um, user_id, current_time, W) ==
    LET cleaned == CleanOldMessages(um, user_id, current_time, W)
    IN  [um |-> cleaned, ret |-> Len(cleaned[user_id])]

(***************************************************************************)
(* The rate limiter, call by call, with sequential callers and a clock     *)
(* that never runs backward.                                               *)
(***************************************************************************)
RecordsSoFar == Len(accepted["user_1"]) + Len(accepted["user_2"])

InitLimiter ==
    /\ window_size \in 1..MaxWindow
    /\ max_messages \in 1..MaxMessages
    /\ user_messages = <<>>
    /\ now = 0
    /\ limOp = NoLimOp
    /\ accepted = [u \in Users |-> <<>>]
    /\ promise = [u \in Users |-> 0]
    /\ callers = [p \in Callers |-> NoCall]
    /\ CacheUnused

Tick ==
    /\ now < MaxTime
    /\ now' = now + 1
    /\ limOp' = [op |-> "tick", user |-> "", ret |-> FALSE, raised |-> FALSE]
    /\ UNCHANGED <<window_size, max_messages, user_messages, accepted, promise, callers, cacheVars>>

CanSendMessageCall(user_id) ==
    LET r == CanSendMessage(user_messages, user_id, now, window_size, max_messages)
    IN  /\ user_messages' = r.um
        /\ limOp' = [op |-> "can_send_message", user |-> user_id, ret |-> r.ret,
                     raised |-> FALSE]
        /\ UNCHANGED <<window_size, max_messages, now, accepted, promise, callers, cacheVars>>

RecordMessageCall(user_id, drift) ==
    LET r == RecordMessage(user_messages, user_id, now, now + drift,
                           window_size, max_messages)
    IN  /\ now + drift <= MaxTime
        /\ RecordsSoFar < MaxRecords
        /\ now' = IF r.ret THEN now + drift ELSE now
        /\ user_messages' = r.um
        /\ limOp' = [op |-> "record_message", user |-> user_id, ret |-> r.ret,
                     raised |-> FALSE]
        /\ accepted' = IF r.ret THEN [accepted EXCEPT ![user_id] = Append(@, now + drift)]
                       ELSE accepted
        /\ promise' = IF r.ret THEN [promise EXCEPT ![user_id] = 0] ELSE promise
        /\ UNCHANGED <<window_size, max_messages, callers, cacheVars>>

TimeUntilNextAllowedCall(user_id) ==
    LET r == TimeUntilNextAllowed(user_messages, user_id, now, window_size, max_messages)
    IN  /\ user_messages' = r.um
        /\ limOp' = [op |-> "time_until_next_allowed", user |-> user_id, ret |-> r.ret,
                     raised |-> r.raised]
        /\ promise' = IF r.ret > 0 THEN [promise EXCEPT ![user_id] = now + r.ret]
                      ELSE promise
        /\ UNCHANGED <<window_size, max_messages, now, accepted, callers, cacheVars>>

GetMessageCountCall(user_id) ==
    LET r == GetMessageCount(user_messages, user_id, now, window_size)
    IN  /\ user_messages' = r.um
        /\ limOp' = [op |-> "get_message_count", user |-> user_id, ret |-> r.ret,
                     raised |-> FALSE]
        /\ UNCHANGED <<window_size, max_messages, now, accepted, promise, callers, cacheVars>>

NextLimiter ==
    \/ Tick
    \/ \E user_id \in Users : CanSendMessageCall(user_id)
    \/ \E user_id \in Users, drift \in 0..MaxDrift : RecordMessageCall(user_id, drift)
    \/ \E user_id \in Users : TimeUntilNextAllowedCall(user_id)
    \/ \E user_id \in Users : GetMessageCountCall(user_id)

SpecLimiter == InitLimiter /\ [][NextLimiter]_vars

(***************************************************************************)
(* SlidingWindowRateLimiter.__init__ stores whatever policy it is given:   *)
(* the same limiter for every window_size and max_messages from -1 on.     *)
(***************************************************************************)
InitLimiterAnyPolicy ==
    /\ window_size \in (-1)..MaxWindow
    /\ max_messages \in (-1)..MaxMessages
    /\ user_messages = <<>>
    /\ now = 0
    /\ limOp = NoLimOp
    /\ accepted = [u \in Users |-> <<>>]
    /\ promise = [u \in Users |-> 0]
    /\ callers = [p \in Callers |-> NoCall]
    /\ CacheUnused

SpecLimiterAnyPolicy == InitLimiterAnyPolicy /\ [][NextLimiter]_vars

(***************************************************************************)
(* record_message without a lock, called by two threads: each call runs    *)
(* its can_send_message, and later, if that allowed it, reads the clock    *)
(* and appends; the other thread and the clock may move in between.        *)
(***************************************************************************)
RecordsUnderWay == Cardinality({p \in Callers : callers[p].pc = "allowed"})

RecordCheck(p, user_id) ==
    LET r == CanSendMessage(user_messages, user_id, now, window_size, max_messages)
    IN  /\ callers[p].pc = "idle"
        /\ RecordsSoFar + RecordsUnderWay < MaxRecords
        /\ user_messages' = r.um
        /\ IF r.ret
           THEN /\ callers' = [callers EXCEPT
                                 ![p] = [pc |-> "allowed", user |-> user_id, raced |-> FALSE]]
                /\ limOp' = [op |-> "record_check", user |-> user_id, ret |-> TRUE,
                             raised |-> FALSE]
           ELSE /\ callers' = callers
                /\ limOp' = [op |-> "record_message", user |-> user_id, ret |-> FALSE,
                             raised |-> FALSE]
        /\ UNCHANGED <<window_size, max_messages, now, accepted, promise, cacheVars>>

RecordAppend(p) ==
    LET user_id == callers[p].user
        current_time == now
    IN  /\ callers[p].pc = "allowed"
        /\ user_messages' = WithMessages(user_messages, user_id,
                                Append(MessagesOf(user_messages, user_id), current_time))
        /\ accepted' = [accepted EXCEPT ![user_id] = Append(@, current_time)]
        /\ promise' = [promise EXCEPT ![user_id] = 0]
        /\ callers' = [q \in Callers |->
                         IF q = p THEN NoCall
                         ELSE IF callers[q].pc = "allowed" /\ callers[q].user = user_id
                         THEN [callers[q] EXCEPT !.raced = TRUE]
                         ELSE callers[q]]
        /\ limOp' = [op |-> "record_message", user |-> user_id, ret |-> TRUE,
                     raised |-> FALSE]
        /\ UNCHANGED <<window_size, max_messages, now, cacheVars>>

NextLimiterRace ==
    \/ Tick
    \/ \E p \in Callers, user_id \in Users : RecordCheck(p, user_id)
    \/ \E p \in Callers : RecordAppend(p)

SpecLimiterRace == InitLimiter /\ [][NextLimiterRace]_vars

(***************************************************************************)
(* C1: with a capacity of at least 1, the cache never holds more entries   *)
(* than its capacity, after any put, get, membership test or invalidate.   *)
(***************************************************************************)
C1_SizeWithinCapacity == CacheLen(cache) <= capacity

C1_Witness == cacheOp.op = "put" /\ cacheOp.removed # {} /\ CacheLen(cache) = capacity

(***************************************************************************)
(* The held key whose latest use, by the history, is the longest ago.      *)
(***************************************************************************)
LeastRecentlyUsed(u, held) == CHOOSE k \in held : \A j \in held : u[k] <= u[j]

(***************************************************************************)
(* C2: a put of a key that is not held, into a cache holding capacity      *)
(* entries, removes exactly one entry, the held key whose latest           *)
(* successful get or put is the longest ago; every other held key stays    *)
(* with its value, and the new key is the most recently used (the tail).   *)
(***************************************************************************)
C2_PutEvictsLeastRecentlyUsed ==
    [][(/\ cacheOp'.op = "put"
        /\ cacheOp'.key \notin HeldKeys(cache)
        /\ CacheLen(cache) = capacity)
       => LET victim == LeastRecentlyUsed(used, HeldKeys(cache))
          IN  /\ HeldKeys(cache') = (HeldKeys(cache) \ {victim}) \cup {cacheOp'.key}
              /\ CacheLen(cache') = capacity
              /\ \A k \in HeldKeys(cache) \ {victim} : ValueOf(cache', k) = ValueOf(cache, k)
              /\ cache'[Len(cache')] = <<cacheOp'.key, cacheOp'.ret[1]>>
      ]_vars

C2_Witness ==
    /\ cacheOp.op = "put"
    /\ capacity >= 2
    /\ cacheOp.removed # {}
    /\ cacheOp.key \notin cacheOp.removed
    /\ CacheLen(cache) = capacity

(***************************************************************************)
(* The sum of array[L..R], both ends included, taken index by index.       *)
(***************************************************************************)
RECURSIVE SumFromTo(_, _, _)
SumFromTo(a, L, R) == IF R < L THEN 0 ELSE a[R + 1] + SumFromTo(a, L, R - 1)

(***************************************************************************)
(* C4: after any interleaving of range_sum_with_cache and update_array on  *)
(* one array and one cache, every cached entry (L, R) -> v has             *)
(* v = array[L] + ... + array[R] of the current array: no cached sum that  *)
(* spans an updated index survives the update.                             *)
(***************************************************************************)
C4_CachedSumsAreCurrent ==
    \A i \in DOMAIN cache : cache[i][2] = SumFromTo(array, cache[i][1][1], cache[i][1][2])

C4_Witness ==
    /\ cacheOp.op = "update_array"
    /\ cacheOp.removed # {}
    /\ cache # <<>>

(***************************************************************************)
(* C5: every range_sum_with_cache call returns what range_sum_no_cache     *)
(* returns for the same (L, R), whatever hits, misses and evictions came   *)
(* before, for every capacity >= 1.                                        *)
(***************************************************************************)
C5_CachedEqualsUncached ==
    cacheOp.op = "range_sum_with_cache"
        => cacheOp.ret[1] = RangeSumNoCache(array, cacheOp.key[1], cacheOp.key[2])

C5_Witness ==
    /\ cacheOp.op = "range_sum_with_cache"
    /\ cacheOp.removed # {}
    /\ cacheOp.ret[1] > 0

(***************************************************************************)
(* C12: after invalidate(p), every key that was held and has p true is     *)
(* absent, every key that was held and has p false is still held with the  *)
(* same value, and no key that was absent is present.  cacheOp.key is the  *)
(* set of the held keys p is true of.                                      *)
(***************************************************************************)
C12_InvalidateRemovesExactlyMatches ==
    [][cacheOp'.op = "invalidate"
       => /\ HeldKeys(cache') = HeldKeys(cache) \ cacheOp'.key
          /\ \A k \in HeldKeys(cache) \ cacheOp'.key : ValueOf(cache', k) = ValueOf(cache, k)
          /\ Len(cache') = Cardinality(HeldKeys(cache'))
      ]_vars

C12_Witness ==
    /\ cacheOp.op = "invalidate"
    /\ cacheOp.removed # {}
    /\ cacheOp.key = cacheOp.removed
    /\ cache # <<>>

(***************************************************************************)
(* C13: a put of a key that is already held never evicts, even at          *)
(* capacity: the held keys are the same before and after, the key's value  *)
(* is replaced, the key is the most recently used, and the order of the    *)
(* other keys among themselves is unchanged.                               *)
(***************************************************************************)
C13_PutOfHeldKeyNeverEvicts ==
    [][(cacheOp'.op = "put" /\ cacheOp'.key \in HeldKeys(cache))
       => /\ cacheOp'.raised = FALSE
          /\ HeldKeys(cache') = HeldKeys(cache)
          /\ Len(cache') = Len(cache)
          /\ cache'[Len(cache')] = <<cacheOp'.key, cacheOp'.ret[1]>>
          /\ DelItem(cache', cacheOp'.key) = DelItem(cache, cacheOp'.key)
      ]_vars

C13_Witness ==
    /\ cacheOp.op = "put"
    /\ cacheOp.hit
    /\ capacity >= 2
    /\ CacheLen(cache) = capacity
    /\ \E i \in DOMAIN cache : cache[i][2] # cache[Len(cache)][2]

(***************************************************************************)
(* C18: invalidate(p) keeps the recency order of the keys it keeps: of     *)
(* two surviving keys the one less recently used before is the one less    *)
(* recently used after, so the next key to be evicted is the survivor      *)
(* whose latest use is the longest ago.                                    *)
(***************************************************************************)
C18_InvalidateKeepsRecencyOrder ==
    [][cacheOp'.op = "invalidate"
       => /\ \A k1, k2 \in HeldKeys(cache') :
                (IndexOf(cache, k1) < IndexOf(cache, k2))
                    = (IndexOf(cache', k1) < IndexOf(cache', k2))
          /\ cache' # <<>>
                => Head(cache')[1] = LeastRecentlyUsed(used, HeldKeys(cache'))
      ]_vars

C18_Witness ==
    /\ cacheOp.op = "invalidate"
    /\ cacheOp.removed # {}
    /\ CacheLen(cache) >= 2
    /\ used[cache[1][1]] = 1
    /\ used[cache[2][1]] = 2

(***************************************************************************)
(* C19: get of a key that is not held returns None, raises nothing and     *)
(* leaves keys, values and order as they were; get of a held key returns   *)
(* the value of the latest put of that key and changes nothing but the     *)
(* key's place, which becomes the most recently used.                      *)
(***************************************************************************)
C19_GetReturnsLatestPutAndOnlyRefreshes ==
    [][cacheOp'.op = "get"
       => IF cacheOp'.key \notin HeldKeys(cache)
          THEN /\ cacheOp'.ret = <<>>
               /\ cacheOp'.raised = FALSE
               /\ cache' = cache
          ELSE /\ cacheOp'.ret = lastPut[cacheOp'.key]
               /\ cacheOp'.raised = FALSE
               /\ HeldKeys(cache') = HeldKeys(cache)
               /\ \A k \in HeldKeys(cache) : ValueOf(cache', k) = ValueOf(cache, k)
               /\ cache'[Len(cache')][1] = cacheOp'.key
               /\ DelItem(cache', cacheOp'.key) = DelItem(cache, cacheOp'.key)
      ]_vars

C19_Witness ==
    /\ cacheOp.op = "get"
    /\ cacheOp.hit
    /\ cacheOp.ret = <<1>>
    /\ CacheLen(cache) >= 2
    /\ used[cacheOp.key] = CacheLen(cache)

(***************************************************************************)
(* C20: the membership test and len are pure queries: they answer          *)
(* whether the key is held and how many keys are, and leave keys, values   *)
(* and recency order as they were, so a test of the least recently used    *)
(* key does not save it from the next eviction.                            *)
(***************************************************************************)
C20_ContainsAndLenArePure ==
    [][cacheOp'.op \in {"contains", "len"}
       => /\ cache' = cache
          /\ cacheOp'.op = "contains"
                => cacheOp'.ret = <<cacheOp'.key \in HeldKeys(cache)>>
          /\ cacheOp'.op = "len" => cacheOp'.ret = <<Cardinality(HeldKeys(cache))>>
      ]_vars

C20_Witness ==
    /\ cacheOp.op = "contains"
    /\ cacheOp.hit
    /\ CacheLen(cache) = capacity
    /\ capacity >= 2
    /\ cache[1][1] = cacheOp.key

(***************************************************************************)
(* What the limiter's claims are stated in: the timestamps of a user's     *)
(* accepted messages (from the history) that lie in the window             *)
(* (t - window_size, t], and the part of a stored list inside the window.  *)
(***************************************************************************)
AcceptedInWindow(user_id, t) ==
    {i \in DOMAIN accepted[user_id] :
        /\ accepted[user_id][i] > t - window_size
        /\ accepted[user_id][i] <= t}

InWindow(list, t) == SelectSeq(list, LAMBDA x : x > t - window_size)

(***************************************************************************)
(* C3: with sequential callers and a clock that never runs backward, for   *)
(* every user and every time T at most max_messages accepted messages      *)
(* have a timestamp in (T - window_size, T].                               *)
(***************************************************************************)
C3_NoBurstInAnyWindow ==
    \A user_id \in Users, T \in 0..MaxTime :
        Cardinality(AcceptedInWindow(user_id, T)) <= max_messages

C3_Witness ==
    \E user_id \in Users :
        /\ Len(accepted[user_id]) > max_messages
        /\ max_messages >= 2
        /\ \E T \in 0..MaxTime : Cardinality(AcceptedInWindow(user_id, T)) = max_messages

(***************************************************************************)
(* C6: can_send_message(user) at time now returns true exactly when fewer  *)
(* than max_messages of the user's recorded timestamps t have              *)
(* t > now - window_size; a timestamp exactly window_size old does not     *)
(* count.                                                                  *)
(***************************************************************************)
C6_CanSendIffUnderLimit ==
    limOp.op = "can_send_message"
        => limOp.ret = (Cardinality(AcceptedInWindow(limOp.user, now)) < max_messages)

C6_Witness ==
    /\ limOp.op = "can_send_message"
    /\ limOp.ret = TRUE
    /\ max_messages = 1
    /\ \E i \in DOMAIN accepted[limOp.user] : accepted[limOp.user][i] = now - window_size

(***************************************************************************)
(* C7: record_message for a user at the limit returns false, raises        *)
(* nothing and appends nothing: the user's timestamps inside the window    *)
(* are the same before and after, and no other user's list changes.        *)
(***************************************************************************)
C7_RecordAtLimitIsRefused ==
    [][(/\ limOp'.op = "record_message"
        /\ Len(InWindow(MessagesOf(user_messages, limOp'.user), now)) >= max_messages)
       => /\ limOp'.ret = FALSE
          /\ limOp'.raised = FALSE
          /\ MessagesOf(user_messages', limOp'.user)
                = InWindow(MessagesOf(user_messages, limOp'.user), now)
          /\ \A other \in Users \ {limOp'.user} :
                /\ (other \in DOMAIN user_messages') = (other \in DOMAIN user_messages)
                /\ MessagesOf(user_messages', other) = MessagesOf(user_messages, other)
      ]_vars

C7_Witness ==
    /\ limOp.op = "record_message"
    /\ limOp.ret = FALSE
    /\ \E other \in Users \ {limOp.user} : MessagesOf(user_messages, other) # <<>>

(***************************************************************************)
(* C8: record_message for a user under the limit returns true and appends  *)
(* exactly one timestamp, the current time, so that get_message_count at   *)
(* that instant is one more than it would have been without the call.      *)
(***************************************************************************)
C8_RecordUnderLimitAppendsNow ==
    [][(/\ limOp'.op = "record_message"
        /\ Len(InWindow(MessagesOf(user_messages, limOp'.user), now)) < max_messages)
       => /\ limOp'.ret = TRUE
          /\ MessagesOf(user_messages', limOp'.user)
                = Append(InWindow(MessagesOf(user_messages, limOp'.user), now), now')
          /\ GetMessageCount(user_messages', limOp'.user, now', window_size).ret
                = GetMessageCount(user_messages, limOp'.user, now', window_size).ret + 1
      ]_vars

C8_Witness ==
    /\ limOp.op = "record_message"
    /\ limOp.ret = TRUE
    /\ Len(MessagesOf(user_messages, limOp.user)) >= 2

(***************************************************************************)
(* C9: time_until_next_allowed(user) at time now returns 0 exactly when    *)
(* can_send_message(user) would return true at that now; otherwise it      *)
(* returns (oldest timestamp in the window + window_size) - now; it never  *)
(* returns a negative value.                                               *)
(***************************************************************************)
C9_WaitIsOldestPlusWindow ==
    limOp.op = "time_until_next_allowed"
        => LET user_id == limOp.user
               inWindow == {accepted[user_id][i] : i \in AcceptedInWindow(user_id, now)}
               oldest == CHOOSE t \in inWindow : \A x \in inWindow : t <= x
           IN  /\ limOp.raised = FALSE
               /\ limOp.ret >= 0
               /\ (limOp.ret = 0)
                    = CanSendMessage(user_messages, user_id, now,
                                     window_size, max_messages).ret
               /\ limOp.ret # 0 => limOp.ret = (oldest + window_size) - now

C9_Witness ==
    /\ limOp.op = "time_until_next_allowed"
    /\ limOp.ret > 0
    /\ Len(MessagesOf(user_messages, limOp.user)) >= 2
    /\ MinOf(user_messages[limOp.user]) < MaxOf(user_messages[limOp.user])

(***************************************************************************)
(* C10: the wait is exact.  Once time_until_next_allowed returned d > 0    *)
(* at time t0 for a user, and as long as no message of that user is        *)
(* recorded, can_send_message(user) is false at every time before t0 + d   *)
(* and true at t0 + d and at every later time: both for the calls that     *)
(* are made and for a call at any time from now on.                        *)
(***************************************************************************)
C10_WaitIsExact ==
    /\ \A user_id \in Users :
          promise[user_id] > 0 =>
            \A t \in now..(MaxTime + window_size) :
                CanSendMessage(user_messages, user_id, t, window_size, max_messages).ret
                    = (t >= promise[user_id])
    /\ (limOp.op = "can_send_message" /\ promise[limOp.user] > 0)
          => limOp.ret = (now >= promise[limOp.user])

C10_Witness ==
    /\ limOp.op = "can_send_message"
    /\ promise[limOp.user] = now
    /\ limOp.ret = TRUE
    /\ max_messages >= 2
    /\ MessagesOf(user_messages, limOp.user) # <<>>

(***************************************************************************)
(* C11: users are isolated.  Every can_send_message, record_message,       *)
(* time_until_next_allowed and get_message_count call for user A leaves    *)
(* the timestamp list of every other user B as it was (an absent list      *)
(* stays absent), so can_send_message(B) and get_message_count(B) give, at *)
(* every later time, the results they would have given without the call.   *)
(***************************************************************************)
C11_UsersAreIsolated ==
    [][\A A \in Users : \A B \in Users \ {A} :
          (limOp'.user = A /\ limOp'.op \in {"can_send_message", "record_message",
                                             "time_until_next_allowed",
                                             "get_message_count"})
          => /\ (B \in DOMAIN user_messages') = (B \in DOMAIN user_messages)
             /\ MessagesOf(user_messages', B) = MessagesOf(user_messages, B)
             /\ \A t \in now'..MaxTime :
                   /\ CanSendMessage(user_messages', B, t, window_size, max_messages).ret
                        = CanSendMessage(user_messages, B, t, window_size, max_messages).ret
                   /\ GetMessageCount(user_messages', B, t, window_size).ret
                        = GetMessageCount(user_messages, B, t, window_size).ret
      ]_vars

C11_Witness ==
    /\ limOp.op = "record_message"
    /\ limOp.user = "user_1"
    /\ limOp.ret = TRUE
    /\ MessagesOf(user_messages, "user_2") # <<>>
    /\ MessagesOf(user_messages, "user_1") # MessagesOf(user_messages, "user_2")

(***************************************************************************)
(* C14: a capacity <= 0 is rejected at construction, so put only ever runs *)
(* on a cache of positive capacity and does not fail there.                *)
(***************************************************************************)
C14_NonPositiveCapacityRejected ==
    cacheOp.op = "put" => (capacity >= 1 /\ cacheOp.raised = FALSE)

(***************************************************************************)
(* C17: get and put are not safe to interleave without a lock.  A get(k)   *)
(* that passed its membership test fails (KeyError) exactly when k is not  *)
(* held at the statement it has reached, and k can only have left the      *)
(* cache meanwhile by a put of a new key at capacity that found k at the   *)
(* head; with no such put in between, get returns the value it holds.      *)
(***************************************************************************)
C17_GetFailsOnlyWhenOvertakenByEvictingPut ==
    [][/\ (getter'.lost /\ ~getter.lost)
          => /\ cacheOp'.op = "put"
             /\ cacheOp'.hit = FALSE
             /\ Len(cache) >= capacity
             /\ cache[1][1] = getter.key
             /\ cacheOp'.removed = {getter.key}
       /\ (getter.pc # "idle" /\ getter'.pc = "idle")
          => /\ cacheOp'.op = "get"
             /\ cacheOp'.key = getter.key
             /\ cacheOp'.raised = (getter.key \notin HeldKeys(cache))
             /\ cacheOp'.raised => getter.lost
             /\ ~cacheOp'.raised => cacheOp'.ret = lastPut[getter.key]
      ]_vars

C17_Witness ==
    /\ cacheOp.op = "get"
    /\ cacheOp.raised = TRUE
    /\ cacheOp.key \notin HeldKeys(cache)
    /\ Len(cache) = capacity

(***************************************************************************)
(* C15: a non-positive window_size or max_messages is rejected at          *)
(* construction, so can_send_message, record_message and                   *)
(* time_until_next_allowed only ever run under a positive policy, and      *)
(* time_until_next_allowed never fails on an empty list.                   *)
(***************************************************************************)
C15_NonPositivePolicyRejected ==
    limOp.op \in {"can_send_message", "record_message", "time_until_next_allowed"}
    => /\ window_size >= 1
       /\ max_messages >= 1
       /\ limOp.raised = FALSE

(***************************************************************************)
(* C16: record_message is not atomic with its permission check.  A call    *)
(* that was allowed appends at the time it gets to, whatever happened      *)
(* since its check; the append takes the user's in-window count over       *)
(* max_messages only when another call appended for the same user between  *)
(* the check and the append -- and then it does (see the witness).         *)
(***************************************************************************)
C16_RecordExceedsOnlyWhenChecksOverlap ==
    [][\A p \in Callers :
          (callers[p].pc = "allowed" /\ callers'[p].pc = "idle")
          => LET user_id == callers[p].user
             IN  /\ limOp' = [op |-> "record_message", user |-> user_id, ret |-> TRUE,
                              raised |-> FALSE]
                 /\ user_messages'[user_id]
                      = Append(MessagesOf(user_messages, user_id), now)
                 /\ (Len(InWindow(user_messages'[user_id], now')) > max_messages)
                      => callers[p].raced
      ]_vars

C16_Witness ==
    \E user_id \in Users :
        /\ limOp = [op |-> "record_message", user |-> user_id, ret |-> TRUE,
                    raised |-> FALSE]
        /\ Len(InWindow(MessagesOf(user_messages, user_id), now)) > max_messages

(***************************************************************************)
(* C21: a cleaning pass for a user at time now leaves exactly the user's   *)
(* stored timestamps t with t > now - window_size, in their order (a       *)
(* record_message that is allowed then appends its own).  Timestamps go    *)
(* only so: a step that is not a call for the user -- the clock moving, a  *)
(* call for another user -- leaves the user's list as it was.              *)
(***************************************************************************)
C21_CleaningKeepsExactlyTheWindow ==
    [][\A user_id \in Users :
          LET before == MessagesOf(user_messages, user_id)
              after == MessagesOf(user_messages', user_id)
              kept == SelectSeq(before, LAMBDA t : t > now - window_size)
          IN  IF /\ limOp'.user = user_id
                 /\ limOp'.op \in {"can_send_message", "record_message",
                                   "time_until_next_allowed", "get_message_count"}
              THEN /\ user_id \in DOMAIN user_messages'
                   /\ IF limOp'.op = "record_message" /\ limOp'.ret = TRUE
                      THEN after = Append(kept, now')
                      ELSE after = kept
              ELSE /\ after = before
                   /\ (user_id \in DOMAIN user_messages')
                        = (user_id \in DOMAIN user_messages)
      ]_vars

\* a pass has just dropped a timestamp at the very edge of the window and kept a later one
C21_Witness ==
    \E user_id \in Users :
        /\ limOp.op = "get_message_count"
        /\ limOp.user = user_id
        /\ MessagesOf(user_messages, user_id) # <<>>
        /\ Len(MessagesOf(user_messages, user_id)) < Len(accepted[user_id])
        /\ \E i \in DOMAIN accepted[user_id] : accepted[user_id][i] = now - window_size

(***************************************************************************)
(* C22: with sequential callers and max_messages >= 1, every user's stored *)
(* list, timestamps not yet pruned included, has at most max_messages      *)
(* elements, although record_message reads the clock a second time for     *)
(* the timestamp it appends.                                               *)
(***************************************************************************)
C22_StoredListWithinLimit ==
    max_messages >= 1
    => \A user_id \in DOMAIN user_messages :
          Len(user_messages[user_id]) <= max_messages

\* a record whose second clock reading came later than its check: the list is full and
\* holds a timestamp that was in the window at the check and is out of it now
C22_Witness ==
    \E user_id \in Users :
        /\ limOp.op = "record_message"
        /\ limOp.user = user_id
        /\ limOp.ret = TRUE
        /\ Len(MessagesOf(user_messages, user_id)) = max_messages
        /\ \E i \in DOMAIN user_messages[user_id] :
              user_messages[user_id][i] <= now - window_size

=============================================================================
